---- MODULE Spec2Model ----
(***************************************************************************)
(* A model of the baby-cry analysis backend: the analysis job              *)
(* (app/tasks/analysis_tasks.py) with the API handlers that start it and   *)
(* touch the source's record (app/api/v1/analysis.py, audio_files.py), and *)
(* the pure algorithms of app/audio (episode detection, unit segmentation, *)
(* percentages).                                                           *)
(*                                                                         *)
(* One audio source (one row of audio_files) is modelled; the jobs of      *)
(* different sources share nothing but the worker pool.                    *)
(***************************************************************************)
EXTENDS Integers, Sequences, FiniteSets, TLC

VARIABLES
    fileExists,  \* the audio_files row exists
    fileOnDisk,  \* the file at audio_file.file_path exists
    status,      \* audio_files.status
    task_id,     \* audio_files.task_id (0: NULL)
    results,     \* analysis_results rows of the source, named by the run that added them
    queue,       \* the broker's queue of analyze_audio_file tasks
    nextTask,    \* the next Celery task id
    taskState,   \* result backend: the state of each task
    taskMeta,    \* result backend: the progress a task in state PROGRESS reported last
    taskError,   \* result backend: the exception of each failed task ("none" otherwise)
    pc,          \* each worker's position in analyze_audio_file
    run,         \* each worker's locals
    audio,       \* what the audio file holds
    call,        \* the pure function applied last ("none" before)
    arg,         \* its input
    ret          \* its result

jobVars == <<fileExists, fileOnDisk, status, task_id, results, queue, nextTask,
             taskState, taskMeta, taskError, pc, run, audio>>
fnVars == <<call, arg, ret>>
vars == <<jobVars, fnVars>>

Max(a, b) == IF a >= b THEN a ELSE b
Min(a, b) == IF a <= b THEN a ELSE b

----------------------------------------------------------------------------
(* Bounds *)

\* start_analysis requests accepted in a behaviour
MaxTasks == 2
\* episodes and pitch frames per episode of the audio, single-run specification
MaxEpisodes == 4
MaxFrames == 21

----------------------------------------------------------------------------
(* The job: state *)

Workers == {"w1", "w2"}
Statuses == {"uploaded", "processing", "completed", "failed"}
Tasks == 1..MaxTasks

NoRun == [task |-> 0, total |-> 0, i |-> 0, sub |-> 0, err |-> "none", wrote |-> "none"]

\* what an audio file can hold: readable audio with some episodes, each of the same
\* number of pitch frames; zero-length audio; or bytes no decoder reads
AudioFiles(maxEp, maxFr) ==
    { [kind |-> "ok", episodes |-> n, frames |-> f] : n \in 0..maxEp, f \in 0..maxFr }
    \cup { [kind |-> "empty", episodes |-> 0, frames |-> 0],
           [kind |-> "unreadable", episodes |-> 0, frames |-> 0] }

NoCall ==
    /\ call = "none"
    /\ arg = <<>>
    /\ ret = <<>>

JobIdle ==
    /\ fileExists = TRUE
    /\ fileOnDisk = TRUE
    /\ status = "uploaded"
    /\ task_id = 0
    /\ results = {}
    /\ queue = <<>>
    /\ nextTask = 1
    /\ taskState = [t \in Tasks |-> "PENDING"]
    /\ taskMeta = [t \in Tasks |-> 0]
    /\ taskError = [t \in Tasks |-> "none"]
    /\ pc = [w \in Workers |-> "idle"]
    /\ run = [w \in Workers |-> NoRun]

\* the audio files of the lifecycle specification, where the interleavings are the
\* subject: one episode of no frame, zero-length audio, an unreadable file
LifeAudio ==
    { [kind |-> "ok", episodes |-> 1, frames |-> 0],
      [kind |-> "empty", episodes |-> 0, frames |-> 0],
      [kind |-> "unreadable", episodes |-> 0, frames |-> 0] }

Init ==
    /\ JobIdle
    /\ audio \in LifeAudio
    /\ NoCall

----------------------------------------------------------------------------
(* The API handlers *)

\* POST /analysis/start, the handler's body on a request that passed validation
StartAnalysisBody ==
    /\ fileExists
    /\ status \notin {"processing", "completed"}
    /\ nextTask <= MaxTasks
    /\ queue' = Append(queue, nextTask)
    /\ task_id' = nextTask
    /\ nextTask' = nextTask + 1
    /\ UNCHANGED <<fileExists, fileOnDisk, status, results, taskState, taskMeta, taskError, pc,
                   run, audio>>

\* POST /analysis/start with a valid request
StartAnalysis ==
    /\ StartAnalysisBody
    /\ UNCHANGED fnVars

\* PATCH /audio-files/{file_id} with a status
UpdateAudioFile(s) ==
    /\ fileExists
    /\ status' = s
    /\ UNCHANGED <<fileExists, fileOnDisk, task_id, results, queue, nextTask, taskState,
                   taskMeta, taskError, pc, run, audio, fnVars>>

\* DELETE /audio-files/{file_id}; a failed os.remove is swallowed
DeleteAudioFile(removed) ==
    /\ fileExists
    /\ fileOnDisk' = (fileOnDisk /\ ~removed)
    /\ fileExists' = FALSE
    /\ results' = {}
    /\ UNCHANGED <<status, task_id, queue, nextTask, taskState, taskMeta, taskError, pc,
                   run, audio,
                   fnVars>>

\* status_messages of get_analysis_status: the fixed text of a status. A message is
\* modelled by where its text comes from; no text of status_messages is the text of a
\* progress update of a run that goes on, and none is an exception's text
StatusMessages(s) == [of |-> "status_messages", status |-> s, progress |-> -1]

\* task_info.get('message', ...): the message of the progress update the backend holds
TaskInfoMessage(t) == [of |-> "task_info", status |-> "processing", progress |-> taskMeta[t]]

\* GET /analysis/status/{file_id} on an existing source; progress None is -1
GetAnalysisStatus ==
    IF status = "processing" /\ task_id # 0
    THEN IF taskState[task_id] = "PROGRESS"
         THEN [status |-> status, message |-> TaskInfoMessage(task_id),
               progress |-> taskMeta[task_id], task_id |-> task_id]
         ELSE [status |-> status, message |-> StatusMessages(status),
               progress |-> -1, task_id |-> task_id]
    ELSE [status |-> status, message |-> StatusMessages(status),
          progress |-> IF status = "completed" THEN 100 ELSE -1, task_id |-> task_id]

----------------------------------------------------------------------------
(* The job: progress arithmetic of analyze_audio_file *)

\* base_progress = 50 + int((i / max(total_episodes, 1)) * 30)
BaseProgress(i, total) == 50 + (30 * i) \div Max(total, 1)

StepSizeUnscaled(total) == 30 \div Max(total, 1)

\* step_size = int(30 / max(total_episodes, 1) / 15)
StepSize(total) == (30 \div Max(total, 1)) \div 15

\* acoustic_progress_callback(substep, message), substep = num / den:
\* progress = base_progress + int(substep * step_size)
CallbackProgress(base, step, num, den) == base + (num * step) \div den

\* the substeps analyze_segment reports before its frame loop, in tenths:
\* 1, 2, 3, 4, 5, 6, 6.5, 6.7
CallbackSubsteps == <<10, 20, 30, 40, 50, 60, 65, 67>>

NumSubsNoUnits(T) == Len(CallbackSubsteps) + T + 2

\* the sub-steps of one episode of T frames: the callbacks before the frame loop, one
\* per frame, then steps 11..14 of the task's loop body
NumSubs(T) == Len(CallbackSubsteps) + T + 4

\* the frame loop reports when idx % max(1, total_frames // 10) == 0
FrameReports(idx, T) == idx % Max(1, T \div 10) = 0

\* the progress sub-step k of episode i reports, -1 when it reports nothing
SubProgress(i, total, T, k) ==
    LET base == BaseProgress(i, total)
        step == StepSize(total)
        nCb == Len(CallbackSubsteps)
    IN  IF k <= nCb
        THEN CallbackProgress(base, step, CallbackSubsteps[k], 10)
        ELSE IF k <= nCb + T
        THEN IF FrameReports(k - nCb - 1, T)
             THEN CallbackProgress(base, step, 7 * T + 3 * (k - nCb - 1), T)
             ELSE -1
        ELSE base + step * (11 + (k - nCb - T - 1))

\* the update_state calls outside the episode loop, by position
FixedProgress == [p10 |-> 10, p20 |-> 20, p40 |-> 40, p50 |-> 50, p85 |-> 85, p100 |-> 100]
AfterProgress == [p10 |-> "p20", p20 |-> "detect", p40 |-> "p50", p50 |-> "load",
                  p85 |-> "save", p100 |-> "ret"]

----------------------------------------------------------------------------
(* The job: analyze_audio_file, one action per step between two effects others see *)

Raise(w, kind) ==
    /\ pc' = [pc EXCEPT ![w] = "except"]
    /\ run' = [run EXCEPT ![w] = [NoRun EXCEPT !.task = run[w].task, !.err = kind,
                                                !.i = run[w].i, !.wrote = run[w].wrote]]

\* self.update_state(state='PROGRESS', meta={'progress': p, ...})
UpdateState(t, p) ==
    /\ taskState' = [taskState EXCEPT ![t] = "PROGRESS"]
    /\ taskMeta' = [taskMeta EXCEPT ![t] = p]

TaskStartNoCommit(w) ==
    /\ pc[w] = "idle"
    /\ queue # <<>>
    /\ queue' = Tail(queue)
    /\ taskState' = [taskState EXCEPT ![Head(queue)] = "STARTED"]
    /\ pc' = [pc EXCEPT ![w] = IF fileExists THEN "p10" ELSE "except"]
    /\ run' = [run EXCEPT ![w] = [NoRun EXCEPT !.task = Head(queue),
                                                !.err = IF fileExists THEN "none"
                                                        ELSE "notfound"]]
    /\ UNCHANGED <<fileExists, fileOnDisk, status, task_id, results, nextTask, taskMeta,
                   taskError, audio, fnVars>>

\* a worker takes the task: the query, status = "processing", commit
TaskStart(w) ==
    /\ pc[w] = "idle"
    /\ queue # <<>>
    /\ queue' = Tail(queue)
    /\ taskState' = [taskState EXCEPT ![Head(queue)] = "STARTED"]
    /\ IF fileExists
       THEN /\ status' = "processing"
            /\ pc' = [pc EXCEPT ![w] = "p10"]
            /\ run' = [run EXCEPT ![w] = [NoRun EXCEPT !.task = Head(queue),
                                                        !.wrote = "processing"]]
       ELSE /\ status' = status
            /\ pc' = [pc EXCEPT ![w] = "except"]
            /\ run' = [run EXCEPT ![w] = [NoRun EXCEPT !.task = Head(queue),
                                                        !.err = "notfound"]]
    /\ UNCHANGED <<fileExists, fileOnDisk, task_id, results, nextTask, taskMeta, taskError,
                   audio, fnVars>>

\* an update_state outside the episode loop; the backend may refuse it
ReportProgress(w) ==
    /\ pc[w] \in DOMAIN FixedProgress
    /\ \E delivered \in BOOLEAN :
         IF delivered
         THEN /\ UpdateState(run[w].task, FixedProgress[pc[w]])
              /\ pc' = [pc EXCEPT ![w] = AfterProgress[pc[w]]]
              /\ run' = run
         ELSE /\ Raise(w, "update_state")
              /\ UNCHANGED <<taskState, taskMeta>>
    /\ UNCHANGED <<fileExists, fileOnDisk, status, task_id, results, queue, nextTask,
                   taskError, audio, fnVars>>

\* cry_detector.detect_from_file(audio_file.file_path)
Detect(w) ==
    /\ pc[w] = "detect"
    /\ IF ~fileExists
       THEN Raise(w, "deleted")
       ELSE IF ~fileOnDisk \/ audio.kind = "unreadable"
       THEN Raise(w, "detect")
       ELSE /\ pc' = [pc EXCEPT ![w] = "p40"]
            /\ run' = [run EXCEPT ![w].total = audio.episodes]
    /\ UNCHANGED <<fileExists, fileOnDisk, status, task_id, results, queue, nextTask,
                   taskState, taskMeta, taskError, audio, fnVars>>

\* y_full, sr = librosa.load(audio_file.file_path, sr=22050), then the loop's entry
LoadAudio(w) ==
    /\ pc[w] = "load"
    /\ IF ~fileOnDisk
       THEN Raise(w, "load")
       ELSE /\ pc' = [pc EXCEPT ![w] = IF run[w].total = 0 THEN "p85" ELSE "episode"]
            /\ run' = [run EXCEPT ![w].i = 0, ![w].sub = IF run[w].total = 0 THEN 0 ELSE 1]
    /\ UNCHANGED <<fileExists, fileOnDisk, status, task_id, results, queue, nextTask,
                   taskState, taskMeta, taskError, audio, fnVars>>

\* the work of sub-step k can raise, except where analyze_segment catches everything
\* (harmonicity, jitter and shimmer)
WorkCanRaise(k) == k \notin {7, 8}

\* one sub-step of the loop body for episode run[w].i: its update_state, then its work
EpisodeStep(w) ==
    /\ pc[w] = "episode"
    /\ LET r == run[w]
           T == audio.frames
           p == SubProgress(r.i, r.total, T, r.sub)
       IN  \E outcome \in {"ok", "backend", "work"} :
             /\ outcome = "backend" => p >= 0
             /\ outcome = "work" => WorkCanRaise(r.sub)
             /\ outcome = "ok" => (r.sub = 1 => fileOnDisk)
             /\ IF p >= 0 /\ outcome # "backend"
                THEN UpdateState(r.task, p)
                ELSE UNCHANGED <<taskState, taskMeta>>
             /\ CASE outcome = "backend" -> Raise(w, "update_state")
                  [] outcome = "work" -> Raise(w, "episode")
                  [] OTHER ->
                       IF r.sub < NumSubs(T)
                       THEN /\ run' = [run EXCEPT ![w].sub = r.sub + 1]
                            /\ pc' = pc
                       ELSE IF r.i + 1 < r.total
                       THEN /\ run' = [run EXCEPT ![w].i = r.i + 1, ![w].sub = 1]
                            /\ pc' = pc
                       ELSE /\ run' = [run EXCEPT ![w].i = r.i + 1, ![w].sub = 0]
                            /\ pc' = [pc EXCEPT ![w] = "p85"]
    /\ UNCHANGED <<fileExists, fileOnDisk, status, task_id, results, queue, nextTask,
                   taskError, audio, fnVars>>

\* db.add(analysis_result); audio_file.status = "completed"; db.commit()
Save(w) ==
    /\ pc[w] = "save"
    /\ IF fileExists
       THEN /\ results' = results \cup {run[w].task}
            /\ status' = "completed"
            /\ pc' = [pc EXCEPT ![w] = "p100"]
            /\ run' = [run EXCEPT ![w].wrote = "completed"]
       ELSE /\ Raise(w, "deleted")
            /\ UNCHANGED <<results, status>>
    /\ UNCHANGED <<fileExists, fileOnDisk, task_id, queue, nextTask, taskState, taskMeta,
                   taskError, audio, fnVars>>

\* return analysis_result.id (the row is read again after the commit)
Return(w) ==
    /\ pc[w] = "ret"
    /\ IF run[w].task \in results
       THEN /\ taskState' = [taskState EXCEPT ![run[w].task] = "SUCCESS"]
            /\ taskMeta' = [taskMeta EXCEPT ![run[w].task] = 0]
            /\ pc' = [pc EXCEPT ![w] = "idle"]
            /\ run' = [run EXCEPT ![w] = NoRun]
       ELSE /\ Raise(w, "deleted")
            /\ UNCHANGED <<taskState, taskMeta>>
    /\ UNCHANGED <<fileExists, fileOnDisk, status, task_id, results, queue, nextTask,
                   taskError, audio, fnVars>>

ExceptKeepsStatus(w) ==
    /\ pc[w] = "except"
    /\ taskState' = [taskState EXCEPT ![run[w].task] = "FAILURE"]
    /\ taskMeta' = [taskMeta EXCEPT ![run[w].task] = 0]
    /\ taskError' = [taskError EXCEPT ![run[w].task] = run[w].err]
    /\ pc' = [pc EXCEPT ![w] = "idle"]
    /\ run' = [run EXCEPT ![w] = NoRun]
    /\ UNCHANGED <<fileExists, fileOnDisk, status, task_id, results, queue, nextTask,
                   audio, fnVars>>

\* except Exception: status = "failed" when the row is found; commit; raise
Except(w) ==
    /\ pc[w] = "except"
    /\ status' = IF fileExists THEN "failed" ELSE status
    /\ taskState' = [taskState EXCEPT ![run[w].task] = "FAILURE"]
    /\ taskMeta' = [taskMeta EXCEPT ![run[w].task] = 0]
    /\ taskError' = [taskError EXCEPT ![run[w].task] = run[w].err]
    /\ pc' = [pc EXCEPT ![w] = "idle"]
    /\ run' = [run EXCEPT ![w] = NoRun]
    /\ UNCHANGED <<fileExists, fileOnDisk, task_id, results, queue, nextTask, audio,
                   fnVars>>

\* task_time_limit: the pool kills the process that runs the task (no handler of the
\* task runs) and stores TimeLimitExceeded as the task's result; the limit is reached
\* while the run works, before its last commit
TimeLimit(w) ==
    /\ pc[w] \notin {"idle", "p100", "ret", "except"}
    /\ taskState' = [taskState EXCEPT ![run[w].task] = "FAILURE"]
    /\ taskMeta' = [taskMeta EXCEPT ![run[w].task] = 0]
    /\ taskError' = [taskError EXCEPT ![run[w].task] = "TimeLimitExceeded"]
    /\ pc' = [pc EXCEPT ![w] = "idle"]
    /\ run' = [run EXCEPT ![w] = NoRun]
    /\ UNCHANGED <<fileExists, fileOnDisk, status, task_id, results, queue, nextTask,
                   audio, fnVars>>

WorkerStep(w) ==
    \/ TaskStart(w)
    \/ ReportProgress(w)
    \/ Detect(w)
    \/ LoadAudio(w)
    \/ EpisodeStep(w)
    \/ Save(w)
    \/ Return(w)
    \/ Except(w)
    \/ TimeLimit(w)

Next ==
    \/ StartAnalysis
    \/ \E s \in Statuses : UpdateAudioFile(s)
    \/ \E removed \in BOOLEAN : DeleteAudioFile(removed)
    \/ \E w \in Workers : WorkerStep(w)

Spec == Init /\ [][Next]_vars

\* one accepted start_analysis and nothing else touching the source: a job run alone
InitRun ==
    /\ JobIdle
    /\ audio \in AudioFiles(MaxEpisodes, MaxFrames)
    /\ NoCall

NextRun ==
    \/ StartAnalysis /\ nextTask = 1
    \/ \E w \in Workers : WorkerStep(w)

SpecRun == InitRun /\ [][NextRun]_vars

----------------------------------------------------------------------------
(* start_analysis: the request's validation. A request body is validated against  *)
(* AnalysisRequestSchema before the handler's body runs. Thresholds are in Hz and  *)
(* dB, min_cry_duration in milliseconds, energy_threshold in thousandths; an       *)
(* optional value is <<>> (None) or <<v>>.                                         *)

\* the ge and le of the fields of AnalysisParametersSchema
ParameterRanges ==
    [high_pitch_threshold |-> [ge |-> 100, le |-> 2000],
     hyper_phonation_threshold |-> [ge |-> 10, le |-> 50],
     noise_reduction_level |-> [ge |-> 0, le |-> 3],
     min_cry_duration |-> [ge |-> 100, le |-> 5000],
     energy_threshold |-> [ge |-> 1, le |-> 100]]

\* the defaults of the fields
DefaultParameters ==
    [high_pitch_threshold |-> <<500>>, hyper_phonation_threshold |-> <<30>>,
     noise_reduction_level |-> <<1>>, min_cry_duration |-> <<300>>,
     energy_threshold |-> <<10>>]

InRangeNoUpper(v, r) == v = <<>> \/ r.ge <= v[1]

\* Optional[...] = Field(ge=..., le=...): None passes, a value passes within the range
InRange(v, r) == v = <<>> \/ (r.ge <= v[1] /\ v[1] <= r.le)

ValidParameters(p) ==
    \A f \in DOMAIN ParameterRanges : InRange(p[f], ParameterRanges[f])

\* parameters: Optional[AnalysisParametersSchema] = None
ValidRequest(request) ==
    request.parameters = <<>> \/ ValidParameters(request.parameters[1])

\* the status code of the answer: 422 of the validation, then 404, 400, 202 of the body
StartResponse(request) ==
    IF ~ValidRequest(request) THEN 422
    ELSE IF ~fileExists THEN 404
    ELSE IF status \in {"processing", "completed"} THEN 400
    ELSE 202

\* requests without parameters, and with one field that is None, at either end of its
\* range or one unit outside it, the others at their defaults
StartRequests ==
    {[op |-> "start_analysis", parameters |-> <<>>]}
    \cup UNION { { [op |-> "start_analysis",
                    parameters |-> <<[DefaultParameters EXCEPT ![f] = v]>>] :
                   v \in {<<>>, <<ParameterRanges[f].ge - 1>>, <<ParameterRanges[f].ge>>,
                          <<ParameterRanges[f].le>>, <<ParameterRanges[f].le + 1>>} } :
                 f \in DOMAIN ParameterRanges }

\* a source in any status, present or deleted, no run under way
InitStart ==
    /\ fileExists \in BOOLEAN
    /\ fileOnDisk = fileExists
    /\ status \in Statuses
    /\ task_id = 0
    /\ results = {}
    /\ queue = <<>>
    /\ nextTask = 1
    /\ taskState = [t \in Tasks |-> "PENDING"]
    /\ taskMeta = [t \in Tasks |-> 0]
    /\ taskError = [t \in Tasks |-> "none"]
    /\ pc = [w \in Workers |-> "idle"]
    /\ run = [w \in Workers |-> NoRun]
    /\ audio = [kind |-> "ok", episodes |-> 0, frames |-> 0]
    /\ call = "none"
    /\ arg \in StartRequests
    /\ ret = <<>>

CallStartAnalysis ==
    /\ call = "none"
    /\ arg.op = "start_analysis"
    /\ call' = "start_analysis"
    /\ arg' = arg
    /\ ret' = [code |-> StartResponse(arg)]
    /\ IF StartResponse(arg) = 202
       THEN StartAnalysisBody
       ELSE UNCHANGED jobVars

NextStart == CallStartAnalysis

SpecStart == InitStart /\ [][NextStart]_vars

\* C19: a start request with an analysis parameter outside its allowed range is
\* rejected when it is made: no task is enqueued, the source's status and task_id are
\* unchanged, and no audio is read (no run is started and the file is not touched).
C19_OutOfRangeRejected ==
    [][(/\ call = "none" /\ call' = "start_analysis"
        /\ arg.parameters # <<>>
        /\ \E f \in DOMAIN ParameterRanges :
              /\ arg.parameters[1][f] # <<>>
              /\ \/ arg.parameters[1][f][1] < ParameterRanges[f].ge
                 \/ arg.parameters[1][f][1] > ParameterRanges[f].le)
       => /\ ret'.code = 422
          /\ queue' = queue /\ nextTask' = nextTask
          /\ status' = status /\ task_id' = task_id
          /\ pc' = pc /\ run' = run /\ audio' = audio
          /\ taskState' = taskState]_vars

\* a request that only its out-of-range parameter kept from being accepted
C19_Witness ==
    /\ call = "start_analysis"
    /\ arg.parameters # <<>>
    /\ arg.parameters[1].energy_threshold # <<>>
    /\ arg.parameters[1].energy_threshold[1] > ParameterRanges.energy_threshold.le
    /\ ret.code = 422
    /\ fileExists /\ status = "uploaded"
    /\ queue = <<>> /\ task_id = 0

----------------------------------------------------------------------------
(* The job: claims *)

\* a run is active from the commit of "processing" to its terminal status commit
Active(w) == pc[w] \in {"p10", "p20", "detect", "p40", "p50", "load", "episode", "p85", "save"}

\* C1: at most one run of analyze_audio_file is active for the source at any time,
\* under every interleaving of start_analysis requests and workers.
C1_OneActiveRun == Cardinality({w \in Workers : Active(w)}) <= 1

\* C2: whenever the source's status is completed, an AnalysisResult of the source is
\* persisted.
C2_CompletedHasResult == (fileExists /\ status = "completed") => results # {}

C4_ProgressMonotone ==
    /\ [](\A t \in Tasks : taskMeta[t] \in 0..100)
    /\ [][\A t \in Tasks :
            (taskState[t] = "PROGRESS" /\ taskState'[t] = "PROGRESS")
            => taskMeta'[t] >= taskMeta[t]]_vars

\* a run over three episodes of twenty frames (step_size 0, a frame loop that reports
\* every second frame) has reported its last value
C4_Witness ==
    \E t \in Tasks :
        /\ taskState[t] = "PROGRESS"
        /\ taskMeta[t] = 100
        /\ audio.episodes = 3
        /\ audio.frames = 20

C9_InputErrorFails ==
    [][\A w \in Workers :
         audio.kind \in {"unreadable", "empty"}
         => /\ results' = results
            /\ (pc[w] \in {"ret", "except"} /\ pc'[w] = "idle") => status' = "failed"]_vars

\* the stage sub-step k of an episode of T frames belongs to: analyze_segment (its
\* callbacks and its frame loop), compute_statistics and compute_special_parameters
\* (steps 11 and 12), detect_units_in_episode (step 13), calculate_cry_unit_metrics
\* and the episode's entries of the result (step 14)
EpisodeStage(k, T) ==
    IF k <= 8 + T THEN "features"
    ELSE IF k <= 8 + T + 2 THEN "statistics"
    ELSE IF k = 8 + T + 3 THEN "units"
    ELSE "rollup"

\* C11: the stages of a run are sequential. The first episode is entered only from
\* the load that follows detection (detection has returned); inside the loop a step
\* goes to the next sub-step of the same episode, or from the roll-up of episode i to
\* the first sub-step of episode i + 1; so for each episode the feature analysis ends
\* before unit segmentation, which ends before the roll-up, and the episodes are
\* processed one at a time in detection order.
C11_StagesSequential ==
    [][\A w \in Workers :
         /\ pc'[w] = "p40" /\ pc[w] # "p40" => pc[w] = "detect"
         /\ pc'[w] = "load" /\ pc[w] # "load" => pc[w] = "p50"
         /\ (pc'[w] = "episode" /\ pc[w] # "episode")
            => pc[w] = "load" /\ run'[w].i = 0 /\ run'[w].sub = 1
         /\ (pc[w] = "episode" /\ pc'[w] = "episode" /\ run'[w] # run[w])
            => \/ /\ run'[w].i = run[w].i
                  /\ run'[w].sub = run[w].sub + 1
                  /\ EpisodeStage(run[w].sub, audio.frames)
                       \in {"features", EpisodeStage(run'[w].sub, audio.frames)}
                     \/ <<EpisodeStage(run[w].sub, audio.frames),
                          EpisodeStage(run'[w].sub, audio.frames)>>
                          \in {<<"statistics", "units">>, <<"units", "rollup">>}
               \/ /\ run'[w].i = run[w].i + 1
                  /\ run'[w].sub = 1
                  /\ EpisodeStage(run[w].sub, audio.frames) = "rollup"
         /\ (pc[w] = "episode" /\ pc'[w] = "p85")
            => /\ EpisodeStage(run[w].sub, audio.frames) = "rollup"
               /\ run'[w].i = run[w].total]_vars

\* a run is segmenting the units of its second episode
C11_Witness ==
    \E w \in Workers :
        /\ pc[w] = "episode"
        /\ run[w].i = 1
        /\ audio.frames = 2
        /\ EpisodeStage(run[w].sub, audio.frames) = "units"

\* C15: a progress update that is lost or not delivered never changes the outcome of
\* the run: no run raises, and so ends failed, because an update_state call did not
\* reach the result backend.
C15_LostUpdateHarmless ==
    [][\A w \in Workers :
         (pc[w] = "except" /\ pc'[w] = "idle" /\ run[w].err = "update_state")
         => status' # "failed"]_vars

\* C16: a source is not left in processing once its job has stopped running, in
\* particular when the pool ended the run at its time limit: while the status is
\* processing a run of the source is waiting in the queue or being executed.
C16_NoOrphanedProcessing ==
    (fileExists /\ status = "processing")
    => (queue # <<>> \/ \E w \in Workers : pc[w] # "idle")

\* C17: after a run has failed, the status query reports failed together with the
\* message of the last progress update the run emitted before it failed, and never
\* the text of the exception.
C17_FailedReportsLastProgress ==
    [][\A w \in Workers :
         (/\ pc[w] = "except" /\ pc'[w] = "idle" /\ status' = "failed"
          /\ taskState[run[w].task] = "PROGRESS")
         => /\ GetAnalysisStatus'.status = "failed"
            /\ GetAnalysisStatus'.message = TaskInfoMessage(run[w].task)]_vars

\* C18: while the source's status is processing, no step other than a step of the job
\* deletes the source's audio file or its record, or changes the source's status.
C18_ProcessingSourceUntouched ==
    [][(fileExists /\ status = "processing" /\ pc' = pc /\ run' = run)
       => (fileExists' /\ fileOnDisk' = fileOnDisk /\ status' = status)]_vars

\* C23: once a run has committed its AnalysisResult together with status completed,
\* no later step of the same run changes the status: a failure raised after that
\* commit does not leave the source failed while the run's result is persisted.
C23_CompletedIsFinal ==
    [][\A w \in Workers :
         (run[w].wrote = "completed" /\ run[w].task \in results /\ run'[w] # run[w])
         => status' = status]_vars

\* C24: under every interleaving of start requests, runs, failures and re-runs, at
\* most one AnalysisResult is ever persisted for the source.
C24_OneResultPerSource ==
    Cardinality(results) <= 1

----------------------------------------------------------------------------
(* CryDetector (app/audio/cry_detector.py). Times are in samples, so that a frame  *)
(* lasts HopLength and the configured durations are their values times sr.         *)

\* hop_length = 512
HopLength == 512

\* the frames librosa.feature.rms and spectral_centroid (center=True) give for n samples
FrameCount(n) == 1 + n \div HopLength

\* CryDetector.__init__: chunk_duration, min_duration, max_gap (in samples),
\* energy_threshold (in thousandths), freq_min, freq_max
DetectorConfigs ==
    { [chunk_duration |-> 1100, min_duration |-> m, max_gap |-> g,
       energy_threshold |-> 20, freq_min |-> 200, freq_max |-> 5000] :
      m \in {512, 1024}, g \in {0, 600} }

\* energy > energy_threshold and freq_min <= spectral_centroid <= freq_max
IsCryFrame(f, cfg) ==
    /\ f.energy > cfg.energy_threshold
    /\ f.centroid >= cfg.freq_min
    /\ f.centroid <= cfg.freq_max

\* min(segment_energy_sum / segment_frames / energy_threshold, 1.0), in thousandths
SegmentConfidence(energy_sum, frames, cfg) ==
    Min((1000 * energy_sum) \div (frames * cfg.energy_threshold), 1000)

ClosedSegmentStrict(st, stop, time_offset, cfg) ==
    IF st.segment_frames * HopLength > cfg.min_duration
    THEN <<[start |-> time_offset + st.segment_start * HopLength,
            end |-> time_offset + stop * HopLength,
            confidence |-> SegmentConfidence(st.segment_energy_sum, st.segment_frames, cfg)]>>
    ELSE <<>>

\* a run of segment_frames frames from frame segment_start to frame stop (excluded) is
\* kept as a segment when it lasts min_duration
ClosedSegment(st, stop, time_offset, cfg) ==
    IF st.segment_frames * HopLength >= cfg.min_duration
    THEN <<[start |-> time_offset + st.segment_start * HopLength,
            end |-> time_offset + stop * HopLength,
            confidence |-> SegmentConfidence(st.segment_energy_sum, st.segment_frames, cfg)]>>
    ELSE <<>>

\* the loop of _detect_cry_segments over the frames from the i-th on (frame index i - 1)
RECURSIVE ScanFrames(_, _, _, _, _)
ScanFrames(fr, i, st, time_offset, cfg) ==
    IF i > Len(fr)
    THEN IF st.in_segment
         THEN st.segments \o ClosedSegment(st, Len(fr), time_offset, cfg)
         ELSE st.segments
    ELSE LET cry == IsCryFrame(fr[i], cfg)
             nxt == IF cry /\ ~st.in_segment
                    THEN [st EXCEPT !.in_segment = TRUE, !.segment_start = i - 1,
                                    !.segment_energy_sum = fr[i].energy,
                                    !.segment_frames = 1]
                    ELSE IF cry /\ st.in_segment
                    THEN [st EXCEPT !.segment_energy_sum = @ + fr[i].energy,
                                    !.segment_frames = @ + 1]
                    ELSE IF ~cry /\ st.in_segment
                    THEN [st EXCEPT !.in_segment = FALSE,
                                    !.segments = @ \o ClosedSegment(st, i - 1, time_offset, cfg)]
                    ELSE st
         IN  ScanFrames(fr, i + 1, nxt, time_offset, cfg)

\* _detect_cry_segments(y, time_offset), y given by its frames
DetectCrySegments(fr, time_offset, cfg) ==
    ScanFrames(fr, 1,
               [in_segment |-> FALSE, segment_start |-> 0, segment_energy_sum |-> 0,
                segment_frames |-> 0, segments |-> <<>>],
               time_offset, cfg)

\* sorted(segments, key=lambda x: x[0]): stable, by start
RECURSIVE InsertByStart(_, _)
InsertByStart(sorted, x) ==
    IF sorted = <<>>
    THEN <<x>>
    ELSE IF sorted[Len(sorted)].start <= x.start
    THEN Append(sorted, x)
    ELSE Append(InsertByStart(SubSeq(sorted, 1, Len(sorted) - 1), x), sorted[Len(sorted)])

RECURSIVE SortByStart(_)
SortByStart(segments) ==
    IF segments = <<>>
    THEN <<>>
    ELSE InsertByStart(SortByStart(SubSeq(segments, 1, Len(segments) - 1)),
                       segments[Len(segments)])

RECURSIVE SeqSum(_)
SeqSum(q) == IF q = <<>> THEN 0 ELSE q[1] + SeqSum(Tail(q))

LastConfidence(confidences) == confidences[Len(confidences)]

\* np.mean(confidences), in thousandths
MeanConfidence(confidences) == SeqSum(confidences) \div Len(confidences)

GapFromStart(start, current_start, current_end) == start - current_start

\* gap = start - current_end
Gap(start, current_start, current_end) == start - current_end

ContinuesEpisodeStrict(gap, max_gap) == gap < max_gap

\* if gap <= self.max_gap: the segment continues the episode
ContinuesEpisode(gap, max_gap) == gap <= max_gap

\* CryEpisode(start_time=current_start, end_time=current_end,
\*            duration=current_end - current_start, confidence=np.mean(confidences))
CryEpisode(current_start, current_end, confidences) ==
    [start_time |-> current_start, end_time |-> current_end,
     duration |-> current_end - current_start,
     confidence |-> MeanConfidence(confidences)]

\* the loop of _merge_segments_to_episodes from the i-th sorted segment on
RECURSIVE MergeLoop(_, _, _, _, _, _, _)
MergeLoop(segments, i, current_start, current_end, confidences, episodes, cfg) ==
    IF i > Len(segments)
    THEN Append(episodes, CryEpisode(current_start, current_end, confidences))
    ELSE IF ContinuesEpisode(Gap(segments[i].start, current_start, current_end), cfg.max_gap)
    THEN MergeLoop(segments, i + 1, current_start, segments[i].end,
                   Append(confidences, segments[i].confidence), episodes, cfg)
    ELSE MergeLoop(segments, i + 1, segments[i].start, segments[i].end,
                   <<segments[i].confidence>>,
                   Append(episodes, CryEpisode(current_start, current_end, confidences)),
                   cfg)

\* _merge_segments_to_episodes(segments)
MergeSegmentsToEpisodes(segments, cfg) ==
    IF segments = <<>>
    THEN <<>>
    ELSE LET sorted == SortByStart(segments)
         IN  MergeLoop(sorted, 2, sorted[1].start, sorted[1].end,
                       <<sorted[1].confidence>>, <<>>, cfg)

\* the chunk offsets np.arange(0, duration, chunk_duration)
ChunkOffsets(duration, cfg) ==
    [k \in 1..((duration + cfg.chunk_duration - 1) \div cfg.chunk_duration) |->
        (k - 1) * cfg.chunk_duration]

\* the samples librosa.load(offset=offset, duration=chunk_duration) returns
ChunkSamples(duration, offset, cfg) == Min(cfg.chunk_duration, duration - offset)

\* a recording is given by the frames of its chunks, one chunk after the other: the
\* frames of the y that librosa.load(offset=offset, duration=chunk_duration) returns
\* for the k-th offset
LoadChunk(frames, duration, k, cfg) ==
    LET first == (k - 1) * FrameCount(cfg.chunk_duration)
        n == FrameCount(ChunkSamples(duration, ChunkOffsets(duration, cfg)[k], cfg))
    IN  SubSeq(frames, first + 1, first + n)

\* the loop of detect_from_file from the k-th chunk on: all_segments.extend(segments)
RECURSIVE AllSegments(_, _, _, _)
AllSegments(frames, duration, k, cfg) ==
    IF k > Len(ChunkOffsets(duration, cfg))
    THEN <<>>
    ELSE DetectCrySegments(LoadChunk(frames, duration, k, cfg),
                           ChunkOffsets(duration, cfg)[k], cfg)
         \o AllSegments(frames, duration, k + 1, cfg)

\* detect_from_file(file_path), the file given by its duration and its frames
DetectFromFile(frames, duration, cfg) ==
    MergeSegmentsToEpisodes(AllSegments(frames, duration, 1, cfg), cfg)

----------------------------------------------------------------------------
(* CryDetector: specification. Init draws a recording or a list of segments.      *)

\* the longest recording, in samples
MaxDuration == 2200
\* the times of the segments given to _merge_segments_to_episodes are 0..MaxTime
MaxTime == 2
\* the most segments given to _merge_segments_to_episodes
MaxSegments == 3

\* the frames a chunk can hold: quiet, a cry, a cry at the edge of the band, a loud
\* frame out of the band
FrameKinds ==
    { [energy |-> 5, centroid |-> 1000], [energy |-> 30, centroid |-> 1000],
      [energy |-> 60, centroid |-> 200], [energy |-> 30, centroid |-> 6000] }

SeqsOf(S, n) == UNION { [1..k -> S] : k \in 0..n }

\* the frames of a recording of one duration
TotalFrames(duration, cfg) ==
    LET n == Len(ChunkOffsets(duration, cfg))
    IN  IF n = 0
        THEN 0
        ELSE (n - 1) * FrameCount(cfg.chunk_duration)
             + FrameCount(ChunkSamples(duration, (n - 1) * cfg.chunk_duration, cfg))

\* recordings of no sample, of less than a chunk, of one chunk, of MaxDuration samples
DetectInputs ==
    UNION { [op : {"detect_from_file"},
             frames : [1..TotalFrames(d, cfg) -> FrameKinds],
             duration : {d}, cfg : {cfg}] :
            d \in {0, 600, 1100, MaxDuration}, cfg \in DetectorConfigs }

\* segments with start <= end on the grid 0..MaxTime, of confidence 0.6 or 1.0, in
\* any order; max_gap 0 or 1
SegmentsOnGrid ==
    { s \in [start : 0..MaxTime, end : 0..MaxTime, confidence : {600, 1000}] :
        s.start <= s.end }

MergeInputs ==
    { [op |-> "merge_segments_to_episodes", segments |-> q,
       cfg |-> [chunk_duration |-> 1100, min_duration |-> 512, max_gap |-> g,
                energy_threshold |-> 20, freq_min |-> 200, freq_max |-> 5000]] :
      q \in SeqsOf(SegmentsOnGrid, MaxSegments),
      g \in {0, 1} }

\* the most frames of a chunk given to _detect_cry_segments
MaxChunkFrames == 5

\* chunks of up to MaxChunkFrames frames of every kind, the first chunk of a
\* recording or the second
SegmentInputs ==
    UNION { [op : {"detect_cry_segments"},
             frames : [1..n -> FrameKinds],
             time_offset : {0, 1100}, cfg : DetectorConfigs] :
            n \in 0..MaxChunkFrames }

\* no job is modelled in the specifications of the pure functions
NoJob ==
    /\ JobIdle
    /\ audio = [kind |-> "ok", episodes |-> 0, frames |-> 0]

InitDetect ==
    /\ NoJob
    /\ call = "none"
    /\ arg \in DetectInputs \cup MergeInputs \cup SegmentInputs
    /\ ret = <<>>

CallDetectFromFile ==
    /\ call = "none"
    /\ arg.op = "detect_from_file"
    /\ call' = "detect_from_file"
    /\ ret' = DetectFromFile(arg.frames, arg.duration, arg.cfg)
    /\ UNCHANGED <<arg, jobVars>>

CallMergeSegments ==
    /\ call = "none"
    /\ arg.op = "merge_segments_to_episodes"
    /\ call' = "merge_segments_to_episodes"
    /\ ret' = MergeSegmentsToEpisodes(arg.segments, arg.cfg)
    /\ UNCHANGED <<arg, jobVars>>

CallDetectCrySegments ==
    /\ call = "none"
    /\ arg.op = "detect_cry_segments"
    /\ call' = "detect_cry_segments"
    /\ ret' = DetectCrySegments(arg.frames, arg.time_offset, arg.cfg)
    /\ UNCHANGED <<arg, jobVars>>

NextDetect ==
    \/ CallDetectFromFile
    \/ CallMergeSegments
    \/ CallDetectCrySegments

SpecDetect == InitDetect /\ [][NextDetect]_vars

\* C6: for every input the episodes the detector returns (from a recording, or from
\* any list of segments given to _merge_segments_to_episodes) are in increasing start
\* order, do not overlap (each ends no later than the next starts), have
\* start_time <= end_time and duration = end_time - start_time.
C6_EpisodesOrdered ==
    call \in {"detect_from_file", "merge_segments_to_episodes"}
    => \A k \in DOMAIN ret :
         /\ ret[k].start_time <= ret[k].end_time
         /\ ret[k].duration = ret[k].end_time - ret[k].start_time
         /\ k < Len(ret) => /\ ret[k].start_time < ret[k + 1].start_time
                            /\ ret[k].end_time <= ret[k + 1].start_time

\* two episodes were returned, the first made of a segment that reaches the end of
\* the first chunk and of one that starts with the second chunk
C6_Witness ==
    /\ call = "detect_from_file"
    /\ Len(ret) = 2
    /\ ret[1].start_time < arg.cfg.chunk_duration
    /\ ret[1].end_time >= arg.cfg.chunk_duration + HopLength
    /\ ret[1].end_time <= ret[2].start_time

\* the number of the episode the k-th sorted segment belongs to, when a new episode
\* starts at every segment whose start is more than max_gap after the end of the
\* segment before it
EpisodeOf(sorted, k, max_gap) ==
    1 + Cardinality({ j \in 2..k : sorted[j].start - sorted[j - 1].end > max_gap })

\* C7: in _merge_segments_to_episodes two consecutive segments (in start order) are
\* in the same episode if and only if the gap from the episode's current end (the end
\* of the segment before) to the next start is <= max_gap.
C7_MergeIffGap ==
    (call = "merge_segments_to_episodes" /\ arg.segments # <<>>)
    => LET sorted == SortByStart(arg.segments)
           ep(k) == EpisodeOf(sorted, k, arg.cfg.max_gap)
       IN  /\ Len(ret) = ep(Len(sorted))
           /\ \A k \in DOMAIN sorted :
                /\ ret[ep(k)].start_time <= sorted[k].start
                /\ (k = 1 \/ ep(k) # ep(k - 1)) => ret[ep(k)].start_time = sorted[k].start
                /\ (k = Len(sorted) \/ ep(k) # ep(k + 1)) => ret[ep(k)].end_time = sorted[k].end

\* three segments: the second starts exactly max_gap after the first ends and is
\* merged with it, the third starts later than that after the second and is not
C7_Witness ==
    /\ call = "merge_segments_to_episodes"
    /\ Len(arg.segments) = 3
    /\ arg.segments[2].start - arg.segments[1].end = arg.cfg.max_gap
    /\ arg.segments[3].start - arg.segments[2].end = arg.cfg.max_gap + 1
    /\ Len(ret) = 2
    /\ ret[1].end_time = arg.segments[2].end

\* C21: _detect_cry_segments returns, in time order, exactly one segment for each
\* maximal run of consecutive cry frames of the chunk that lasts min_duration (a run
\* that reaches the last frame included) and nothing for a shorter run; the segment
\* starts at the offset plus the first frame's index times the hop and ends at the
\* offset plus the last frame's index plus one, times the hop.
C21_SegmentsAreLongRuns ==
    call = "detect_cry_segments" =>
        LET fr == arg.frames
            cry(k) == /\ fr[k].energy > arg.cfg.energy_threshold
                      /\ fr[k].centroid >= arg.cfg.freq_min
                      /\ fr[k].centroid <= arg.cfg.freq_max
            runs == { r \in (DOMAIN fr) \X (DOMAIN fr) :
                        /\ r[1] <= r[2]
                        /\ \A k \in r[1]..r[2] : cry(k)
                        /\ r[1] = 1 \/ ~cry(r[1] - 1)
                        /\ r[2] = Len(fr) \/ ~cry(r[2] + 1)
                        /\ (r[2] - r[1] + 1) * HopLength >= arg.cfg.min_duration }
        IN  /\ Len(ret) = Cardinality(runs)
            /\ \A k \in DOMAIN ret :
                 /\ \E r \in runs :
                      /\ ret[k].start = arg.time_offset + (r[1] - 1) * HopLength
                      /\ ret[k].end = arg.time_offset + r[2] * HopLength
                 /\ k < Len(ret) => ret[k].end < ret[k + 1].start

\* a chunk at offset 1100 with a run of one frame that is dropped and a run of two
\* frames that reaches the last frame and is kept
C21_Witness ==
    /\ call = "detect_cry_segments"
    /\ arg.time_offset = 1100
    /\ arg.cfg.min_duration = 2 * HopLength
    /\ Len(arg.frames) = 5
    /\ arg.frames[1].energy = 30 /\ arg.frames[1].centroid = 1000
    /\ arg.frames[2].energy = 5
    /\ arg.frames[4].energy = 60 /\ arg.frames[5].energy = 60
    /\ arg.frames[3].energy = 5
    /\ ret = <<[start |-> 1100 + 3 * HopLength, end |-> 1100 + 5 * HopLength,
                confidence |-> 1000]>>

\* C22: the episodes detect_from_file returns do not depend on where the chunk
\* boundaries fall: every maximal run of consecutive cry frames of the recording that
\* lasts min_duration in total is covered by a returned episode, also when the run
\* goes over a chunk boundary.
C22_RunsCoveredAcrossChunks ==
    call = "detect_from_file" =>
        LET fr == arg.frames
            perChunk == FrameCount(arg.cfg.chunk_duration)
            \* the time at which the g-th frame of the recording starts
            timeOf(g) == ((g - 1) \div perChunk) * arg.cfg.chunk_duration
                         + ((g - 1) % perChunk) * HopLength
            cry(k) == /\ fr[k].energy > arg.cfg.energy_threshold
                      /\ fr[k].centroid >= arg.cfg.freq_min
                      /\ fr[k].centroid <= arg.cfg.freq_max
            runs == { r \in (DOMAIN fr) \X (DOMAIN fr) :
                        /\ r[1] <= r[2]
                        /\ \A k \in r[1]..r[2] : cry(k)
                        /\ r[1] = 1 \/ ~cry(r[1] - 1)
                        /\ r[2] = Len(fr) \/ ~cry(r[2] + 1)
                        /\ (r[2] - r[1] + 1) * HopLength >= arg.cfg.min_duration }
        IN  \A r \in runs :
              \E k \in DOMAIN ret :
                /\ ret[k].start_time <= timeOf(r[1])
                /\ timeOf(r[2]) + HopLength <= ret[k].end_time

C27_ConfidenceIsMean ==
    /\ call \in {"detect_from_file", "merge_segments_to_episodes"}
       => \A e \in DOMAIN ret : ret[e].confidence \in 0..1000
    /\ (call = "merge_segments_to_episodes" /\ arg.segments # <<>>)
       => LET sorted == SortByStart(arg.segments)
              ep(k) == EpisodeOf(sorted, k, arg.cfg.max_gap)
          IN  \A e \in DOMAIN ret :
                LET members == { k \in DOMAIN sorted : ep(k) = e }
                    lo == CHOOSE k \in members : \A m \in members : k <= m
                    n == Cardinality(members)
                IN  ret[e].confidence
                      = SeqSum([j \in 1..n |-> sorted[lo + j - 1].confidence]) \div n
    /\ call = "detect_cry_segments"
       => \A k \in DOMAIN ret :
            LET a == (ret[k].start - arg.time_offset) \div HopLength + 1
                b == (ret[k].end - arg.time_offset) \div HopLength
                total == SeqSum([j \in 1..(b - a + 1) |-> arg.frames[a + j - 1].energy])
                ratio == (1000 * total) \div ((b - a + 1) * arg.cfg.energy_threshold)
            IN  ret[k].confidence = IF ratio > 1000 THEN 1000 ELSE ratio

\* three segments merged into one episode, of confidences 1.0, 1.0 and 0.6
C27_Witness ==
    /\ call = "merge_segments_to_episodes"
    /\ Len(arg.segments) = 3
    /\ arg.segments[1].confidence = 1000
    /\ arg.segments[2].confidence = 1000
    /\ arg.segments[3].confidence = 600
    /\ arg.segments[1].start < arg.segments[2].start
    /\ Len(ret) = 1
    /\ ret[1].confidence = 866

----------------------------------------------------------------------------
(* CryUnitDetector (app/audio/cry_unit_detector.py). Times are in samples: the   *)
(* episode's bounds are sample-exact, so int(t * sr) is t.                        *)

\* CryUnitDetector.__init__ at sr = 22050: min_unit_duration 0.1 s = 2205 samples;
\* min_silence_duration 0.05 s = 1102.5 samples, which a whole number of samples
\* reaches from 1103 on
UnitConfig == [min_unit_duration |-> 2205, min_silence_duration |-> 1103]

\* len(y[a:b]) for a list of len elements and 0 <= a, 0 <= b
SliceLen(len, a, b) == Max(0, Min(b, len) - Min(a, len))

\* a run of silent frames from silence_start to frame stop (excluded) is kept when it
\* lasts min_silence_duration
ClosedSilence(silence_start, stop, cfg) ==
    IF (stop - silence_start) * HopLength >= cfg.min_silence_duration
    THEN <<[start |-> silence_start * HopLength, end |-> stop * HopLength]>>
    ELSE <<>>

\* the loop of _find_silence_segments from the i-th frame on (frame index i - 1)
RECURSIVE SilenceLoop(_, _, _, _)
SilenceLoop(silence_frames, i, st, cfg) ==
    IF i > Len(silence_frames)
    THEN IF st.in_silence
         THEN st.segments \o ClosedSilence(st.silence_start, Len(silence_frames), cfg)
         ELSE st.segments
    ELSE LET nxt == IF silence_frames[i] /\ ~st.in_silence
                    THEN [st EXCEPT !.in_silence = TRUE, !.silence_start = i - 1]
                    ELSE IF ~silence_frames[i] /\ st.in_silence
                    THEN [st EXCEPT !.in_silence = FALSE,
                                    !.segments = @ \o ClosedSilence(st.silence_start, i - 1, cfg)]
                    ELSE st
         IN  SilenceLoop(silence_frames, i + 1, nxt, cfg)

\* _find_silence_segments(silence_frames, frame_duration)
FindSilenceSegments(silence_frames, cfg) ==
    SilenceLoop(silence_frames, 1,
                [in_silence |-> FALSE, silence_start |-> 0, segments |-> <<>>], cfg)

UnitBoundariesAroundEveryGap(silence_segments, total_duration) ==
    [k \in 1..(Len(silence_segments) + 1) |->
        [start |-> IF k = 1 THEN 0 ELSE silence_segments[k - 1].end,
         end |-> IF k = Len(silence_segments) + 1 THEN total_duration
                 ELSE silence_segments[k].start]]

\* the loop of _determine_unit_boundaries from the i-th silence on, then the last unit
RECURSIVE BoundaryLoop(_, _, _, _, _)
BoundaryLoop(silence_segments, i, current_start, boundaries, total_duration) ==
    IF i > Len(silence_segments)
    THEN IF current_start < total_duration
         THEN Append(boundaries, [start |-> current_start, end |-> total_duration])
         ELSE boundaries
    ELSE BoundaryLoop(silence_segments, i + 1, silence_segments[i].end,
                      IF silence_segments[i].start > current_start
                      THEN Append(boundaries, [start |-> current_start,
                                               end |-> silence_segments[i].start])
                      ELSE boundaries,
                      total_duration)

\* _determine_unit_boundaries(silence_segments, total_duration)
DetermineUnitBoundaries(silence_segments, total_duration) ==
    IF silence_segments = <<>>
    THEN <<[start |-> 0, end |-> total_duration]>>
    ELSE BoundaryLoop(silence_segments, 1, 0, <<>>, total_duration)

RECURSIVE UnitsLoopKeepShort(_, _, _, _, _)
UnitsLoopKeepShort(unit_boundaries, i, episode_start_time, episode_len, cfg) ==
    IF i > Len(unit_boundaries)
    THEN <<>>
    ELSE LET abs_start == episode_start_time + unit_boundaries[i].start
             abs_end == episode_start_time + unit_boundaries[i].end
         IN  <<[start_time |-> abs_start, end_time |-> abs_end,
                duration |-> abs_end - abs_start]>>
             \o UnitsLoopKeepShort(unit_boundaries, i + 1, episode_start_time,
                                   episode_len, cfg)

\* the loop over unit_boundaries from the i-th on: a unit shorter than
\* min_unit_duration or with no audio is skipped
RECURSIVE UnitsLoop(_, _, _, _, _)
UnitsLoop(unit_boundaries, i, episode_start_time, episode_len, cfg) ==
    IF i > Len(unit_boundaries)
    THEN <<>>
    ELSE LET abs_start == episode_start_time + unit_boundaries[i].start
             abs_end == episode_start_time + unit_boundaries[i].end
             unit_len == SliceLen(episode_len, unit_boundaries[i].start,
                                  unit_boundaries[i].end)
             unit == IF abs_end - abs_start < cfg.min_unit_duration \/ unit_len = 0
                     THEN <<>>
                     ELSE <<[start_time |-> abs_start, end_time |-> abs_end,
                             duration |-> abs_end - abs_start]>>
         IN  unit \o UnitsLoop(unit_boundaries, i + 1, episode_start_time, episode_len, cfg)

\* detect_units_in_episode(y, episode_start_time, episode_end_time): y given by its
\* length, the episode's audio by the silence of its frames (energy, smoothed, under
\* silence_threshold)
DetectUnitsInEpisode(y_len, silence_frames, episode_start_time, episode_end_time, cfg) ==
    LET episode_len == SliceLen(y_len, episode_start_time, episode_end_time)
    IN  IF episode_len = 0
        THEN <<>>
        ELSE UnitsLoop(DetermineUnitBoundaries(FindSilenceSegments(silence_frames, cfg),
                                               Len(silence_frames) * HopLength),
                       1, episode_start_time, episode_len, cfg)

EveryUnit(units) == units

\* [u for u in units if u.is_voiced]
RECURSIVE VoicedUnits(_)
VoicedUnits(units) ==
    IF units = <<>>
    THEN <<>>
    ELSE (IF units[1].is_voiced THEN <<units[1]>> ELSE <<>>) \o VoicedUnits(Tail(units))

\* [u for u in units if not u.is_voiced]
RECURSIVE UnvoicedUnits(_)
UnvoicedUnits(units) ==
    IF units = <<>>
    THEN <<>>
    ELSE (IF ~units[1].is_voiced THEN <<units[1]>> ELSE <<>>) \o UnvoicedUnits(Tail(units))

\* [u.duration for u in units]
Durations(units) == [k \in DOMAIN units |-> units[k].duration]

\* calculate_cry_unit_metrics(units): cryCE is a fraction (np.mean), unvoicedCE a sum
CalculateCryUnitMetrics(units) ==
    IF units = <<>>
    THEN [cryCE |-> [num |-> 0, den |-> 1], unvoicedCE |-> 0]
    ELSE [cryCE |-> IF VoicedUnits(units) # <<>>
                    THEN [num |-> SeqSum(Durations(VoicedUnits(units))),
                          den |-> Len(VoicedUnits(units))]
                    ELSE [num |-> 0, den |-> 1],
          unvoicedCE |-> IF UnvoicedUnits(units) # <<>>
                         THEN SeqSum(Durations(UnvoicedUnits(units)))
                         ELSE 0]

----------------------------------------------------------------------------
(* CryUnitDetector: specification. Init draws an episode and its frames' silence. *)

\* the longest episode, in samples
MaxEpisodeLen == 4096

\* the frames of an episode's audio: none is computed for no audio
EnergyFrames(len) == IF len = 0 THEN 0 ELSE FrameCount(len)

\* episodes starting at 0 or later, of no sample, of less than a hop, of five hops,
\* of MaxEpisodeLen samples; y holds the whole episode or stops 200 samples early
UnitInputs ==
    UNION { [op : {"detect_units_in_episode"},
             y_len : {Max(0, s + len - short)},
             episode_start_time : {s},
             episode_end_time : {s + len},
             silence_frames :
                 [1..EnergyFrames(SliceLen(Max(0, s + len - short), s, s + len)) -> BOOLEAN],
             cfg : {UnitConfig}] :
            s \in {0, 700}, len \in {0, 300, 2560, MaxEpisodeLen}, short \in {0, 200} }

\* the longest episode given to _determine_unit_boundaries, and the most gaps in it
MaxTotal == 5
MaxGaps == 3

\* the non-empty gaps inside [0, total]
GapsOn(total) == { g \in [start : 0..total, end : 0..total] : g.start < g.end }

\* episodes of 1..MaxTotal with up to MaxGaps gaps, ordered and disjoint (a gap may
\* start where the one before ends); and the gaps _find_silence_segments returns for
\* the frames of an episode, with the total detect_units_in_episode passes
BoundaryInputs ==
    UNION { { [op |-> "determine_unit_boundaries", silence_segments |-> q,
               total_duration |-> t, step |-> 1] :
              q \in { x \in SeqsOf(GapsOn(t), MaxGaps) :
                        \A k \in 1..(Len(x) - 1) : x[k].end <= x[k + 1].start } } :
            t \in 1..MaxTotal }
    \cup { [op |-> "determine_unit_boundaries",
            silence_segments |-> FindSilenceSegments(f, UnitConfig),
            total_duration |-> Len(f) * HopLength, step |-> HopLength] :
           f \in UNION { [1..n -> BOOLEAN] : n \in 1..7 } }

\* the most units given to calculate_cry_unit_metrics
MaxUnits == 4

\* every list of up to MaxUnits units, voiced or not, of three durations
MetricInputs ==
    { [op |-> "calculate_cry_unit_metrics", units |-> q] :
      q \in SeqsOf([duration : {2560, 3072, 5120}, is_voiced : BOOLEAN], MaxUnits) }

InitUnits ==
    /\ NoJob
    /\ call = "none"
    /\ arg \in UnitInputs \cup BoundaryInputs \cup MetricInputs
    /\ ret = <<>>

CallDetectUnitsInEpisode ==
    /\ call = "none"
    /\ arg.op = "detect_units_in_episode"
    /\ call' = "detect_units_in_episode"
    /\ ret' = DetectUnitsInEpisode(arg.y_len, arg.silence_frames, arg.episode_start_time,
                                   arg.episode_end_time, arg.cfg)
    /\ UNCHANGED <<arg, jobVars>>

CallDetermineUnitBoundaries ==
    /\ call = "none"
    /\ arg.op = "determine_unit_boundaries"
    /\ call' = "determine_unit_boundaries"
    /\ ret' = DetermineUnitBoundaries(arg.silence_segments, arg.total_duration)
    /\ UNCHANGED <<arg, jobVars>>

CallCalculateCryUnitMetrics ==
    /\ call = "none"
    /\ arg.op = "calculate_cry_unit_metrics"
    /\ call' = "calculate_cry_unit_metrics"
    /\ ret' = CalculateCryUnitMetrics(arg.units)
    /\ UNCHANGED <<arg, jobVars>>

NextUnits ==
    \/ CallDetectUnitsInEpisode
    \/ CallDetermineUnitBoundaries
    \/ CallCalculateCryUnitMetrics

SpecUnits == InitUnits /\ [][NextUnits]_vars

\* C8: every unit detect_units_in_episode returns for an episode lies inside it:
\* unit.start_time >= the episode's start and unit.end_time <= the episode's end,
\* whatever the episode's length in samples.
C8_UnitsInsideEpisode ==
    call = "detect_units_in_episode"
    => \A k \in DOMAIN ret :
         /\ ret[k].start_time >= arg.episode_start_time
         /\ ret[k].end_time <= arg.episode_end_time

\* the cell [c, c + step) of the episode lies in one of the intervals
Covers(intervals, c) ==
    \E k \in DOMAIN intervals : intervals[k].start <= c /\ c < intervals[k].end

\* C12: _determine_unit_boundaries, given ordered disjoint non-empty gaps inside
\* [0, total], returns exactly the maximal non-empty intervals of [0, total] that no
\* gap covers: every interval has positive length, the intervals are in order, a cell
\* of the episode is in an interval iff it is in no gap, every interval starts at 0 or
\* at the end of a gap and ends at total or at the start of a gap (so a gap at the
\* start or at the end of the episode leaves no unit on that side), and with no gap
\* the result is the single interval (0, total).
C12_UnitsAreGapComplement ==
    call = "determine_unit_boundaries"
    => LET gaps == arg.silence_segments
           total == arg.total_duration
           cells == { c \in 0..(total - 1) : c % arg.step = 0 }
       IN  /\ \A k \in DOMAIN ret :
                /\ 0 <= ret[k].start /\ ret[k].start < ret[k].end /\ ret[k].end <= total
                /\ k < Len(ret) => ret[k].end < ret[k + 1].start
                /\ ret[k].start = 0 \/ \E j \in DOMAIN gaps : gaps[j].end = ret[k].start
                /\ ret[k].end = total \/ \E j \in DOMAIN gaps : gaps[j].start = ret[k].end
           /\ \A c \in cells : Covers(ret, c) <=> ~Covers(gaps, c)
           /\ gaps = <<>> => ret = <<[start |-> 0, end |-> total]>>

\* one gap strictly inside the episode gave exactly two intervals
C12_Witness ==
    /\ call = "determine_unit_boundaries"
    /\ Len(arg.silence_segments) = 1
    /\ arg.silence_segments[1].start > 0
    /\ arg.silence_segments[1].end < arg.total_duration
    /\ Len(ret) = 2

\* the sum of the durations of the units whose index is in the set
RECURSIVE DurationSum(_, _)
DurationSum(units, indices) ==
    IF indices = {}
    THEN 0
    ELSE LET k == CHOOSE x \in indices : TRUE
         IN  units[k].duration + DurationSum(units, indices \ {k})

\* C14: calculate_cry_unit_metrics returns cryCE = the mean duration of the voiced
\* units, 0 when there is none, and unvoicedCE = the sum of the durations of the
\* unvoiced units, 0 when there is none, for every list of units, the empty one too.
C14_UnitMetrics ==
    call = "calculate_cry_unit_metrics"
    => LET voiced == { k \in DOMAIN arg.units : arg.units[k].is_voiced }
           unvoiced == DOMAIN arg.units \ voiced
       IN  /\ ret.cryCE = IF voiced = {}
                          THEN [num |-> 0, den |-> 1]
                          ELSE [num |-> DurationSum(arg.units, voiced),
                                den |-> Cardinality(voiced)]
           /\ ret.unvoicedCE = DurationSum(arg.units, unvoiced)

\* two voiced units of different durations around two unvoiced ones
C14_Witness ==
    /\ call = "calculate_cry_unit_metrics"
    /\ Len(arg.units) = 4
    /\ arg.units[1].is_voiced /\ ~arg.units[2].is_voiced
    /\ ~arg.units[3].is_voiced /\ arg.units[4].is_voiced
    /\ ret.cryCE = [num |-> 2560 + 5120, den |-> 2]
    /\ ret.unvoicedCE = 3072 + 3072

----------------------------------------------------------------------------
(* AcousticAnalyzer.compute_special_parameters (app/audio/acoustic_analyzer.py). *)
(* Percentages are in hundredths. (count / total) * 100 is computed in IEEE 754  *)
(* doubles and round(x, 2) rounds the double's exact value, so the direction of  *)
(* a value that is a tie in exact arithmetic is the sign of the double's error.  *)
(* That sign is computed here from the low bits and the remainders of the two    *)
(* operations, which small integers hold.                                        *)

\* 2^e modulo m
RECURSIVE PowMod2(_, _)
PowMod2(e, m) == IF e = 0 THEN 1 % m ELSE (2 * PowMod2(e - 1, m)) % m

\* the least k >= from with count * 2^k >= total: count / total = mantissa * 2^(-k),
\* 1 <= mantissa < 2
RECURSIVE NormShift(_, _, _)
NormShift(count, total, from) ==
    IF count * 2^from >= total THEN from ELSE NormShift(count, total, from + 1)

\* the sign (as an integer of that sign) of double((count / total) * 100) minus the
\* exact 100 * count / total, for 0 < count <= total
DoubleError(count, total) ==
    LET k == NormShift(count, total, 0)
        \* count / total as a double: the 53-bit mantissa is count * 2^(k + 52) / total
        \* rounded to nearest, ties to even; w holds its floor modulo 1024 and the
        \* remainder of the division
        w == (count * PowMod2(k + 52, 1024 * total)) % (1024 * total)
        r == w % total
        floorLow == (w - r) \div total
        up1 == (2 * r > total) \/ (2 * r = total /\ floorLow % 2 = 1)
        \* the mantissa's error, in units of 1 / total
        a == (IF up1 THEN total ELSE 0) - r
        mantissaLow == (floorLow + (IF up1 THEN 1 ELSE 0)) % 1024
        \* times 100: the product has 59 bits when the mantissa is under 1.28 * 2^52,
        \* else 60, and 6 or 7 of them are rounded away
        lhs == 25 * count * 2^k
        drop == IF lhs < 32 * total \/ (lhs = 32 * total /\ a < 0) THEN 6 ELSE 7
        productLow == (100 * mantissaLow) % 1024
        t == productLow % 2^drop
        odd == (productLow \div 2^drop) % 2 = 1
        half == 2^(drop - 1)
        up2 == (t > half) \/ (t = half /\ odd)
        d2 == (IF up2 THEN 2^drop ELSE 0) - t
    IN  100 * a + total * d2

\* round((count / total) * 100, 2), in hundredths
RoundedPct(count, total) ==
    IF count = 0
    THEN 0
    ELSE LET floorPct == (10000 * count) \div total
             rem == (10000 * count) % total
             err == DoubleError(count, total)
         IN  IF 2 * rem < total THEN floorPct
             ELSE IF 2 * rem > total THEN floorPct + 1
             ELSE IF err < 0 THEN floorPct
             ELSE IF err > 0 THEN floorPct + 1
             ELSE IF floorPct % 2 = 0 THEN floorPct ELSE floorPct + 1

\* an optional value: <<>> is None, <<v>> is v
Defined(x) == x # <<>>

HighOrAbsentPitch(f, high_pitch_threshold) ==
    ~Defined(f.f0) \/ f.f0[1] > high_pitch_threshold

\* f.f0 is not None and f.f0 > high_pitch_threshold
IsHighPitch(f, high_pitch_threshold) == Defined(f.f0) /\ f.f0[1] > high_pitch_threshold

\* HNR < 10 dB and shimmer > 5 % and jitter > 1 %, each defined
IsHyperPhonation(f) ==
    /\ Defined(f.hnr) /\ f.hnr[1] < 10
    /\ Defined(f.shimmer) /\ f.shimmer[1] > 5
    /\ Defined(f.jitter) /\ f.jitter[1] > 1

\* compute_special_parameters(features_list, high_pitch_threshold)
ComputeSpecialParameters(features_list, high_pitch_threshold) ==
    LET total_frames == Len(features_list)
        \* sum(1 for f in features_list if ...)
        high_pitch_count ==
            Cardinality({ k \in DOMAIN features_list :
                            IsHighPitch(features_list[k], high_pitch_threshold) })
        hyper_phonation_count ==
            Cardinality({ k \in DOMAIN features_list : IsHyperPhonation(features_list[k]) })
        voiced_count ==
            Cardinality({ k \in DOMAIN features_list : Defined(features_list[k].f0) })
        unvoiced_count == total_frames - voiced_count
    IN  IF total_frames = 0
        THEN [high_pitch_pct |-> 0, hyper_phonation_pct |-> 0,
              voiced_pct |-> 0, unvoiced_pct |-> 0]
        ELSE [high_pitch_pct |-> RoundedPct(high_pitch_count, total_frames),
              hyper_phonation_pct |-> RoundedPct(hyper_phonation_count, total_frames),
              voiced_pct |-> RoundedPct(voiced_count, total_frames),
              unvoiced_pct |-> RoundedPct(unvoiced_count, total_frames)]

----------------------------------------------------------------------------
(* AcousticAnalyzer.compute_statistics. Values are integers and the statistics  *)
(* are exact: the mean and the median are fractions, std is given by its square. *)

\* params = ['f0', 'f1', 'f2', 'f3', 'hnr', 'shimmer', 'jitter', 'intensity']
StatParams == <<"f0", "f1", "f2", "f3", "hnr", "shimmer", "jitter", "intensity">>

ValuesWithZeros(features_list, param) ==
    [k \in DOMAIN features_list |->
        IF Defined(features_list[k][param]) THEN features_list[k][param][1] ELSE 0]

\* values = [getattr(f, param) for f in features_list if getattr(f, param) is not None]
RECURSIVE ParamValues(_, _)
ParamValues(features_list, param) ==
    IF features_list = <<>>
    THEN <<>>
    ELSE (IF Defined(features_list[1][param]) THEN <<features_list[1][param][1]>> ELSE <<>>)
         \o ParamValues(Tail(features_list), param)

\* the values in increasing order
RECURSIVE SortValues(_)
SortValues(values) ==
    IF values = <<>>
    THEN <<>>
    ELSE LET rest == SortValues(Tail(values))
             below == Cardinality({ k \in DOMAIN rest : rest[k] < values[1] })
         IN  SubSeq(rest, 1, below) \o <<values[1]>> \o SubSeq(rest, below + 1, Len(rest))

\* np.mean(values)
StatMean(values) == [num |-> SeqSum(values), den |-> Len(values)]

\* np.std(values), squared: the mean of the squares minus the square of the mean
StatVariance(values) ==
    [num |-> Len(values) * SeqSum([k \in DOMAIN values |-> values[k] * values[k]])
             - SeqSum(values) * SeqSum(values),
     den |-> Len(values) * Len(values)]

\* np.median(values): the middle value, or the mean of the two middle values
StatMedian(values) ==
    LET sorted == SortValues(values)
        n == Len(values)
    IN  [num |-> IF n % 2 = 1 THEN 2 * sorted[(n + 1) \div 2]
                 ELSE sorted[n \div 2] + sorted[n \div 2 + 1],
         den |-> 2]

\* the statistics of one parameter: all None when no frame defines it
ParamStatistics(values) ==
    IF values # <<>>
    THEN [mean |-> <<StatMean(values)>>,
          std |-> <<StatVariance(values)>>,
          min |-> <<SortValues(values)[1]>>,
          max |-> <<SortValues(values)[Len(values)]>>,
          median |-> <<StatMedian(values)>>]
    ELSE [mean |-> <<>>, std |-> <<>>, min |-> <<>>, max |-> <<>>, median |-> <<>>]

\* compute_statistics(features_list)
ComputeStatistics(features_list) ==
    [param \in { StatParams[k] : k \in DOMAIN StatParams } |->
        ParamStatistics(ParamValues(features_list, param))]

----------------------------------------------------------------------------
(* compute_special_parameters: specification. Init draws a frame list.           *)

\* the longest frame list
MaxFeatures == 160

\* frames: no pitch; low pitch, clean; high pitch, hyper-phonated; low pitch with the
\* perturbation measures undefined
FeatureKinds ==
    { [f0 |-> <<>>, hnr |-> <<>>, shimmer |-> <<>>, jitter |-> <<>>],
      [f0 |-> <<300>>, hnr |-> <<20>>, shimmer |-> <<2>>, jitter |-> <<0>>],
      [f0 |-> <<600>>, hnr |-> <<5>>, shimmer |-> <<8>>, jitter |-> <<2>>],
      [f0 |-> <<300>>, hnr |-> <<5>>, shimmer |-> <<>>, jitter |-> <<>>] }

\* n frames of which the first v have a pitch, alternately high and low
FrameRun(v, n) ==
    [k \in 1..n |->
        IF k > v THEN [f0 |-> <<>>, hnr |-> <<>>, shimmer |-> <<>>, jitter |-> <<>>]
        ELSE IF k % 2 = 1 THEN [f0 |-> <<600>>, hnr |-> <<5>>, shimmer |-> <<8>>, jitter |-> <<2>>]
        ELSE [f0 |-> <<300>>, hnr |-> <<20>>, shimmer |-> <<2>>, jitter |-> <<0>>]]

\* every list of up to 3 frames, and for every length up to MaxFeatures every number
\* of frames with a pitch
SpecialParameterInputs ==
    { [op |-> "compute_special_parameters", features_list |-> q,
       high_pitch_threshold |-> 500] : q \in SeqsOf(FeatureKinds, 3) }
    \cup { [op |-> "compute_special_parameters", features_list |-> FrameRun(vn[1], vn[2]),
            high_pitch_threshold |-> 500] :
           vn \in { x \in (0..MaxFeatures) \X (4..MaxFeatures) : x[1] <= x[2] } }

\* the longest frame list given to compute_statistics
MaxStatFrames == 4

\* frames for the statistics: nothing defined; everything defined; a high pitch with
\* a negative HNR and two formants missing; no pitch but some formants
StatFrameKinds ==
    { [f0 |-> <<>>, f1 |-> <<>>, f2 |-> <<>>, f3 |-> <<>>, hnr |-> <<>>,
       shimmer |-> <<>>, jitter |-> <<>>, intensity |-> <<>>],
      [f0 |-> <<300>>, f1 |-> <<800>>, f2 |-> <<1500>>, f3 |-> <<2500>>, hnr |-> <<20>>,
       shimmer |-> <<2>>, jitter |-> <<1>>, intensity |-> <<60>>],
      [f0 |-> <<650>>, f1 |-> <<>>, f2 |-> <<1700>>, f3 |-> <<>>, hnr |-> <<-3>>,
       shimmer |-> <<8>>, jitter |-> <<2>>, intensity |-> <<75>>],
      [f0 |-> <<>>, f1 |-> <<900>>, f2 |-> <<>>, f3 |-> <<2600>>, hnr |-> <<5>>,
       shimmer |-> <<>>, jitter |-> <<>>, intensity |-> <<40>>] }

StatisticsInputs ==
    { [op |-> "compute_statistics", features_list |-> q, high_pitch_threshold |-> 500] :
      q \in SeqsOf(StatFrameKinds, MaxStatFrames) }

InitAcoustic ==
    /\ NoJob
    /\ call = "none"
    /\ arg \in SpecialParameterInputs \cup StatisticsInputs
    /\ ret = <<>>

CallComputeSpecialParameters ==
    /\ call = "none"
    /\ arg.op = "compute_special_parameters"
    /\ call' = "compute_special_parameters"
    /\ ret' = ComputeSpecialParameters(arg.features_list, arg.high_pitch_threshold)
    /\ UNCHANGED <<arg, jobVars>>

\* steps 11 and 12 of the job's loop body: compute_statistics(features), then
\* compute_special_parameters(features)
CallComputeStatistics ==
    /\ call = "none"
    /\ arg.op = "compute_statistics"
    /\ call' = "compute_statistics"
    /\ ret' = [statistics |-> ComputeStatistics(arg.features_list),
               special_params |-> ComputeSpecialParameters(arg.features_list,
                                                           arg.high_pitch_threshold)]
    /\ UNCHANGED <<arg, jobVars>>

NextAcoustic ==
    \/ CallComputeSpecialParameters
    \/ CallComputeStatistics

SpecAcoustic == InitAcoustic /\ [][NextAcoustic]_vars

\* C10: for any non-empty frame list compute_special_parameters returns voiced_pct and
\* unvoiced_pct whose sum is exactly 100 (10000 hundredths).
C10_VoicedUnvoicedSum ==
    (call = "compute_special_parameters" /\ arg.features_list # <<>>)
    => ret.voiced_pct + ret.unvoiced_pct = 10000

\* C29: for every frame list compute_special_parameters returns four percentages
\* within [0, 100] (0..10000 hundredths) with high_pitch_pct <= voiced_pct; for the
\* empty list all four are 0.
C29_PercentagesInRange ==
    call = "compute_special_parameters" =>
        /\ \A p \in {"high_pitch_pct", "hyper_phonation_pct", "voiced_pct", "unvoiced_pct"} :
             ret[p] \in 0..10000
        /\ ret.high_pitch_pct <= ret.voiced_pct
        /\ arg.features_list = <<>>
           => \A p \in DOMAIN ret : ret[p] = 0

\* three frames, one of high pitch, one of low pitch, one without pitch
C29_Witness ==
    /\ call = "compute_special_parameters"
    /\ Len(arg.features_list) = 3
    /\ ret.high_pitch_pct = 3333
    /\ ret.voiced_pct = 6667
    /\ ret.unvoiced_pct = 3333

\* the frames of the list that define the parameter, and the sum of the e-th powers
\* of their values
DefinedFrames(features_list, param) ==
    { k \in DOMAIN features_list : Defined(features_list[k][param]) }

RECURSIVE PowerSum(_, _, _, _)
PowerSum(features_list, param, frames, e) ==
    IF frames = {}
    THEN 0
    ELSE LET k == CHOOSE x \in frames : TRUE
         IN  features_list[k][param][1]^e
             + PowerSum(features_list, param, frames \ {k}, e)

\* C13: compute_statistics computes the five statistics of each parameter over exactly
\* the frames that define it (an absent value is left out, not counted as zero) and
\* returns the five fields None iff no frame defines the parameter; when no frame has
\* f0, statistics["f0"] is all None and voiced_pct and high_pitch_pct are 0.
C13_StatisticsOverDefined ==
    call = "compute_statistics"
    => /\ \A j \in DOMAIN StatParams :
            LET param == StatParams[j]
                fl == arg.features_list
                D == DefinedFrames(fl, param)
                n == Cardinality(D)
                v(k) == fl[k][param][1]
                st == ret.statistics[param]
            IN  IF D = {}
                THEN \A field \in DOMAIN st : st[field] = <<>>
                ELSE /\ \A field \in DOMAIN st : st[field] # <<>>
                     /\ st.mean[1] = [num |-> PowerSum(fl, param, D, 1), den |-> n]
                     /\ st.std[1] = [num |-> n * PowerSum(fl, param, D, 2)
                                             - PowerSum(fl, param, D, 1)^2,
                                     den |-> n * n]
                     /\ \E k \in D : v(k) = st.min[1]
                     /\ \A k \in D : st.min[1] <= v(k)
                     /\ \E k \in D : v(k) = st.max[1]
                     /\ \A k \in D : v(k) <= st.max[1]
                     /\ st.median[1].den = 2
                     /\ \E k, l \in D : v(k) + v(l) = st.median[1].num
                     /\ 2 * Cardinality({ k \in D : 2 * v(k) < st.median[1].num }) <= n
                     /\ 2 * Cardinality({ k \in D : 2 * v(k) > st.median[1].num }) <= n
       /\ DefinedFrames(arg.features_list, "f0") = {}
          => /\ ret.special_params.voiced_pct = 0
             /\ ret.special_params.high_pitch_pct = 0

\* of three frames one has no pitch and two have no first formant: the mean of f0 is
\* over two frames, that of f1 over one
C13_Witness ==
    /\ call = "compute_statistics"
    /\ Len(arg.features_list) = 3
    /\ Cardinality(DefinedFrames(arg.features_list, "f0")) = 2
    /\ ret.statistics["f0"].mean = <<[num |-> 950, den |-> 2]>>
    /\ ret.statistics["f1"].mean = <<[num |-> 800, den |-> 1]>>

----------------------------------------------------------------------------
(* The job: the result document (analyze_audio_file, the episode loop and        *)
(* result_data). An episode is given with what analyze_segment and               *)
(* detect_units_in_episode return for it; a dict is a function on its keys.      *)

SegmentIdOneBased(i) == <<"episode", i + 1>>

\* segment_id = f"episode_{i}"
SegmentId(i) == <<"episode", i>>

\* d[k] = v
Put(d, k, v) == [x \in DOMAIN d \cup {k} |-> IF x = k THEN v ELSE d[x]]

\* cry_episodes_data: one dict per detected episode
CryEpisodesData(cry_episodes) ==
    [k \in DOMAIN cry_episodes |-> [confidence |-> cry_episodes[k].confidence]]

\* cry_units_data: one dict per unit
CryUnitsData(cry_units) ==
    [k \in DOMAIN cry_units |-> [duration |-> cry_units[k].duration,
                                 is_voiced |-> cry_units[k].is_voiced]]

\* episodes_cry_units[segment_id]
EpisodeCryUnits(cry_units) ==
    [units |-> CryUnitsData(cry_units),
     unit_count |-> Len(cry_units),
     cryCE |-> CalculateCryUnitMetrics(cry_units).cryCE,
     unvoicedCE |-> CalculateCryUnitMetrics(cry_units).unvoicedCE]

\* episodes_statistics[segment_id] = {**statistics, **special_params, ...}: a later
\* key replaces an earlier one
EpisodeStatistics(features, cry_units) ==
    [cryCE |-> CalculateCryUnitMetrics(cry_units).cryCE,
     unvoicedCE |-> CalculateCryUnitMetrics(cry_units).unvoicedCE,
     cry_unit_count |-> Len(cry_units)]
    @@ ComputeSpecialParameters(features, 500)
    @@ ComputeStatistics(features)

\* for i, episode in enumerate(cry_episodes), from index i on
RECURSIVE EpisodeLoop(_, _, _)
EpisodeLoop(i, cry_episodes, acc) ==
    IF i >= Len(cry_episodes)
    THEN acc
    ELSE LET episode == cry_episodes[i + 1]
             segment_id == SegmentId(i)
         IN  EpisodeLoop(i + 1, cry_episodes,
                 [episodes_features |->
                      Put(acc.episodes_features, segment_id, episode.features),
                  episodes_cry_units |->
                      Put(acc.episodes_cry_units, segment_id,
                          EpisodeCryUnits(episode.cry_units)),
                  episodes_statistics |->
                      Put(acc.episodes_statistics, segment_id,
                          EpisodeStatistics(episode.features, episode.cry_units))])

\* result_data, built after the loop has ended
ResultData(cry_episodes) ==
    LET done == EpisodeLoop(0, cry_episodes,
                            [episodes_features |-> <<>>, episodes_cry_units |-> <<>>,
                             episodes_statistics |-> <<>>])
    IN  [cry_episodes |-> CryEpisodesData(cry_episodes),
         acoustic_features |-> done.episodes_features,
         statistics |-> done.episodes_statistics,
         cry_units |-> done.episodes_cry_units]

MaxResultEpisodes == 3

\* an episode of no frame, of one voiced frame or of one frame without pitch, with no
\* unit, one voiced unit, or a voiced and an unvoiced unit
ResultEpisodes ==
    [confidence : {1000},
     features : { <<>>,
                  <<[f0 |-> <<300>>, f1 |-> <<800>>, f2 |-> <<1500>>, f3 |-> <<2500>>,
                     hnr |-> <<20>>, shimmer |-> <<2>>, jitter |-> <<1>>,
                     intensity |-> <<60>>]>>,
                  <<[f0 |-> <<>>, f1 |-> <<900>>, f2 |-> <<>>, f3 |-> <<2600>>,
                     hnr |-> <<5>>, shimmer |-> <<>>, jitter |-> <<>>,
                     intensity |-> <<40>>]>> },
     cry_units : { <<>>,
                   <<[duration |-> 2560, is_voiced |-> TRUE]>>,
                   <<[duration |-> 2560, is_voiced |-> TRUE],
                     [duration |-> 3072, is_voiced |-> FALSE]>> }]

ResultInputs ==
    { [op |-> "result_data", cry_episodes |-> q] :
      q \in SeqsOf(ResultEpisodes, MaxResultEpisodes) }

InitResult ==
    /\ NoJob
    /\ call = "none"
    /\ arg \in ResultInputs
    /\ ret = <<>>

CallResultData ==
    /\ call = "none"
    /\ arg.op = "result_data"
    /\ call' = "result_data"
    /\ ret' = ResultData(arg.cry_episodes)
    /\ UNCHANGED <<arg, jobVars>>

NextResult == CallResultData

SpecResult == InitResult /\ [][NextResult]_vars

\* C20: a result document with n entries in cry_episodes has, in each of
\* acoustic_features, statistics and cry_units, exactly the keys episode_0 ..
\* episode_{n-1}, the entry of episode_i being that of the i-th detected episode; and
\* for each key unit_count is the number of units listed and is cry_unit_count.
C20_ResultShape ==
    call = "result_data" =>
        LET n == Len(ret.cry_episodes)
            keys == { <<"episode", i>> : i \in 0..(n - 1) }
        IN  /\ n = Len(arg.cry_episodes)
            /\ DOMAIN ret.acoustic_features = keys
            /\ DOMAIN ret.statistics = keys
            /\ DOMAIN ret.cry_units = keys
            /\ \A i \in 0..(n - 1) :
                 LET k == <<"episode", i>>
                 IN  /\ ret.acoustic_features[k] = arg.cry_episodes[i + 1].features
                     /\ Len(ret.cry_units[k].units) = Len(arg.cry_episodes[i + 1].cry_units)
                     /\ ret.cry_units[k].unit_count = Len(ret.cry_units[k].units)
                     /\ ret.cry_units[k].unit_count = ret.statistics[k].cry_unit_count

\* three episodes of different unit counts, the first without a frame
C20_Witness ==
    /\ call = "result_data"
    /\ Len(ret.cry_episodes) = 3
    /\ ret.cry_units[<<"episode", 0>>].unit_count = 2
    /\ ret.cry_units[<<"episode", 1>>].unit_count = 0
    /\ ret.statistics[<<"episode", 2>>].cry_unit_count = 1
    /\ ret.acoustic_features[<<"episode", 0>>] = <<>>
    /\ ret.acoustic_features[<<"episode", 1>>] # <<>>

----------------------------------------------------------------------------
(* AcousticAnalyzer.analyze_segment: the Praat calls that feed jitter and shimmer. *)
(* A call is given by its outcome: it raises, or it returns NaN or a value (in     *)
(* ten-thousandths). An optional value is <<>> (None) or <<v>>.                    *)

\* value * 100 if value and not np.isnan(value) else None
PercentOrNone(m) ==
    IF m.kind = "value" /\ m.value # 0 THEN <<m.value * 100>> ELSE <<>>

\* try: ... call(point_process, "Get jitter (local)", ...) except: jitter = None
\* (and the same for shimmer)
GuardedMeasure(m) ==
    IF m.kind = "raise" THEN <<>> ELSE PercentOrNone(m)

\* analyze_segment from the point process on: the call that builds the point process
\* is outside every try, the harmonicity, jitter and shimmer calls are inside one;
\* the jitter and shimmer of the segment are put on every frame
AnalyzeSegment(praat) ==
    IF praat.point_process = "raise"
    THEN [raised |-> TRUE, features_list |-> <<>>]
    ELSE [raised |-> FALSE,
          features_list |->
              [k \in 1..praat.total_frames |->
                  [time |-> k,
                   hnr |-> IF praat.harmonicity = "raise" THEN <<>> ELSE <<20>>,
                   jitter |-> GuardedMeasure(praat.jitter),
                   shimmer |-> GuardedMeasure(praat.shimmer)]]]

\* the most pitch frames of a segment
MaxSegmentFrames == 3

\* what a Praat measurement gives: an exception, NaN, zero, a value
Measurements ==
    { [kind |-> "raise", value |-> 0], [kind |-> "nan", value |-> 0],
      [kind |-> "value", value |-> 0], [kind |-> "value", value |-> 120] }

SegmentAnalysisInputs ==
    [op : {"analyze_segment"},
     point_process : {"ok", "raise"},
     harmonicity : {"ok", "raise"},
     jitter : Measurements,
     shimmer : Measurements,
     total_frames : 0..MaxSegmentFrames]

InitSegment ==
    /\ NoJob
    /\ call = "none"
    /\ arg \in SegmentAnalysisInputs
    /\ ret = <<>>

CallAnalyzeSegment ==
    /\ call = "none"
    /\ arg.op = "analyze_segment"
    /\ call' = "analyze_segment"
    /\ ret' = AnalyzeSegment(arg)
    /\ UNCHANGED <<arg, jobVars>>

NextSegment == CallAnalyzeSegment

SpecSegment == InitSegment /\ [][NextSegment]_vars

\* C25: when the jitter or the shimmer measurement of an episode fails, a failure
\* while building the point process they rely on included, analyze_segment still
\* returns the episode's frame list, with jitter (respectively shimmer) absent on
\* every frame, and raises nothing that would fail the run.
C25_JitterShimmerFailureTolerated ==
    call = "analyze_segment" =>
        /\ (arg.jitter.kind = "raise" \/ arg.point_process = "raise")
           => /\ ~ret.raised
              /\ Len(ret.features_list) = arg.total_frames
              /\ \A k \in DOMAIN ret.features_list : ret.features_list[k].jitter = <<>>
        /\ (arg.shimmer.kind = "raise" \/ arg.point_process = "raise")
           => /\ ~ret.raised
              /\ Len(ret.features_list) = arg.total_frames
              /\ \A k \in DOMAIN ret.features_list : ret.features_list[k].shimmer = <<>>

----------------------------------------------------------------------------
(* CryDetector._detect_cry_segments: the confidence in the arithmetic of the build. *)
(* librosa gives the energies as float32 and segment_energy_sum accumulates them    *)
(* in float32. An energy of [2^-6, 2^-5), where the default threshold 0.02 lies, is *)
(* a multiple of 2^-29 and is given as that multiple; a confidence is given in      *)
(* units of 2^-30, rounded down.                                                    *)

\* the spacing of the float32 numbers around x units
RECURSIVE Ulp32(_)
Ulp32(x) == IF x < 2^24 THEN 1 ELSE 2 * Ulp32(x \div 2)

\* the float32 nearest to x units, ties to the even significand
Round32(x) ==
    LET ulp == Ulp32(x)
        q == x \div ulp
        r == x % ulp
    IN  IF 2 * r < ulp THEN q * ulp
        ELSE IF 2 * r > ulp THEN (q + 1) * ulp
        ELSE IF q % 2 = 0 THEN q * ulp ELSE (q + 1) * ulp

\* 0.02 in units of 2^-29 is 10737418.24: the float32 numbers above it
AboveThreshold32(e) == 50 * e > 2^29

\* segment_energy_sum = energy[i], then segment_energy_sum += energy[i] per frame
RECURSIVE EnergySum32(_)
EnergySum32(energies) ==
    IF Len(energies) = 1
    THEN energies[1]
    ELSE Round32(EnergySum32(SubSeq(energies, 1, Len(energies) - 1))
                 + energies[Len(energies)])

\* the quotient a / b rounded to the nearest integer, ties to even
RoundDiv(a, b) ==
    LET q == a \div b
        r == a % b
    IN  IF 2 * r < b THEN q
        ELSE IF 2 * r > b THEN q + 1
        ELSE IF q % 2 = 0 THEN q ELSE q + 1

UncappedConfidence32(energies, promotion) ==
    100 * (EnergySum32(energies) \div Len(energies))
    + (100 * (EnergySum32(energies) % Len(energies))) \div Len(energies)

\* min(segment_energy_sum / segment_frames / self.energy_threshold, 1.0) with the
\* threshold 0.02. A float32 divided by a Python number is a double in NumPy 1 and a
\* float32 in NumPy 2, where 0.02 becomes the float32 10737418 * 2^-29.
\*   double: 2^30 * (s * 2^-29 / n / 0.02) = 100 * s / n (the double nearest to 0.02
\*           is not 1/50: the last unit is exact for runs of fewer than 25 frames)
\*   single: mean32 / 10737418 rounded to a float32 (a multiple of 64 units under 1.0)
SegmentConfidence32(energies, promotion) ==
    LET s == EnergySum32(energies)
        n == Len(energies)
    IN  IF promotion = "double"
        THEN Min(100 * (s \div n) + (100 * (s % n)) \div n, 2^30)
        ELSE LET mean32 == RoundDiv(s, n)
                 thr32 == RoundDiv(2^29, 50)
             IN  IF mean32 >= thr32
                 THEN 2^30
                 ELSE 64 * (2^24 - RoundDiv(2^24 * (thr32 - mean32), thr32))

\* the longest run of frames of differing energies given to the confidence, and the
\* longest run of one energy
MaxRunFrames == 12
MaxLongRun == 36

\* runs of 1..MaxRunFrames cry frames whose energy is the first or the second float32
\* above the threshold, and runs of up to MaxLongRun frames of the first, under
\* either promotion rule
ConfidenceInputs ==
    UNION { [op : {"segment_confidence"},
             energies : [1..n -> { e \in (RoundDiv(2^29, 50) + 1)..(RoundDiv(2^29, 50) + 2) :
                                     AboveThreshold32(e) }],
             promotion : {"double", "single"}] :
            n \in 1..MaxRunFrames }
    \cup UNION { [op : {"segment_confidence"},
                  energies : [1..n -> {RoundDiv(2^29, 50) + 1}],
                  promotion : {"double", "single"}] :
                 n \in (MaxRunFrames + 1)..MaxLongRun }

InitConfidence ==
    /\ NoJob
    /\ call = "none"
    /\ arg \in ConfidenceInputs
    /\ ret = <<>>

CallSegmentConfidence ==
    /\ call = "none"
    /\ arg.op = "segment_confidence"
    /\ call' = "segment_confidence"
    /\ ret' = SegmentConfidence32(arg.energies, arg.promotion)
    /\ UNCHANGED <<arg, jobVars>>

NextConfidence == CallSegmentConfidence

SpecConfidence == InitConfidence /\ [][NextConfidence]_vars

\* C30: every segment _detect_cry_segments returns has confidence exactly 1.0 (and
\* so has every episode, the mean of such confidences), for every input.
C30_ConfidenceExactlyOne ==
    call = "segment_confidence" => ret = 2^30

\* C30 as it holds: the confidence of a segment is at most 1.0 and less than
\* n * 2^-24 under it, n the number of frames of the run; it is exactly 1.0 when the
\* float32 sum of the energies is at least n times the threshold.
C30_ConfidenceNearOne ==
    call = "segment_confidence" =>
        LET n == Len(arg.energies)
        IN  /\ ret <= 2^30
            /\ ret > 2^30 - 64 * n
            /\ 25 * (EnergySum32(arg.energies) - n * RoundDiv(2^29, 50)) >= 6 * n
               => ret = 2^30

\* eleven frames of the first float32 above the threshold: the float32 sum is under
\* eleven times the threshold and the confidence is under 1.0
C30_Witness ==
    /\ call = "segment_confidence"
    /\ Len(arg.energies) = 11
    /\ \A k \in DOMAIN arg.energies : arg.energies[k] = RoundDiv(2^29, 50) + 1
    /\ EnergySum32(arg.energies) < SeqSum(arg.energies)
    /\ ret < 2^30

====
